---- MODULE Spec2Model ----
(***************************************************************************)
(* Model of the coaching orchestrator of src/server.js: the session        *)
(* registry (sessions), one AIAgent per session (transcript buffer,        *)
(* conversation history, host, batch counter), the reasoning calls issued  *)
(* by analyzeBatch, the fan-out of a directive to the enabled platforms    *)
(* and the stop-bot flow (flushBuffer, end-of-session calls, bot deletion).*)
(*                                                                         *)
(* One action is one macrotask of the Node.js event loop: the synchronous  *)
(* run of a handler or of a promise continuation up to its next await on a *)
(* network call.  Every network call (chat.sendMessage, Slack postMessage, *)
(* the Recall fetches, the Twilio sends of one SMSManager method) is a     *)
(* pending entry that a later action settles with success or failure.      *)
(*                                                                         *)
(* The Teams direct-message integration of src/unnamed/part_000 (the       *)
(* TeamsMessageManager singleton, its webhook and its session hooks) is    *)
(* modelled beside it; the server does not call it.                        *)
(***************************************************************************)
EXTENDS Integers, Sequences, FiniteSets, TLC

\* ------------------------------------------------------------- constants
\* this.batchSize of AIAgent
batchSize == 6
\* the literal messagesAnalyzed: 6 of the coaching payloads
messagesAnalyzedLiteral == 6
\* the 10 of getConversationSummary: conversationHistory.slice(-10)
summaryLength == 10

\* ---------------------------------------------------------------- bounds
\* transcript events the sessions accept in one run of the model
MaxEvents == 7
\* POST /api/stop-bot requests in one run of the model
MaxStops == 1
\* session-start calls per platform in one run of the model
MaxStarts == 2
\* transcript events a session has behind it when a run of the model starts
\* late in a meeting
MaxBefore == 12
\* coaching messages handed to the Teams hooks in one run of the model
MaxNudges == 2
\* POST /api/clear-sessions requests in one run of the model
MaxClears == 1

BotIds == {"b1", "b2"}
\* the one id of the runs with a single session
OneBot == {"b1"}
Participants == {"p1", "p2"}
\* the participants the meeting platform flags is_host
Hosts == {"p1"}
\* a further participant flagged is_host, in the meetings that have a co-host
CoHost == "p3"
Null == "null"
Channels == {"SLACK", "ZOOM_DM", "SMS"}
EndChannels == {"SLACK", "SMS"}
PhoneLists == {<<"n1", "n2">>}
Outcomes == {"ok", "fail"}
\* sessionStartTime = null of the Teams manager (the times start at 1)
NoTime == 0
\* the Teams users who write to the bot, and the sessions of the Teams hooks
TeamsUsers == {"u1", "u2"}
TeamsSessionIds == {"s1", "s2"}

VARIABLES
  INTEGRATION_MODES,    \* the platforms of process.env.INTEGRATION
  sessions,             \* keys of the sessions Map
  issuedIds,            \* bot ids the Recall API has handed out
  phoneNumbers,         \* AIAgent.phoneNumbers
  conversationHistory,  \* AIAgent.conversationHistory (event ordinals)
  transcriptBuffer,     \* AIAgent.transcriptBuffer (event ordinals)
  batchCount,           \* AIAgent.batchCount
  interviewerId,        \* AIAgent.interviewerId
  threadTs,             \* SlackThreadManager.threadTs
  slackNudgeCount,      \* SlackThreadManager.nudgeCount
  sessionActive,        \* SMSManager.sessionActive
  smsNudgeCount,        \* SMSManager.nudgeCount
  starts,               \* the session-start calls of setInterviewer
  calls,                \* the analyzeBatch invocations, in issue order
  stops,                \* the stop-bot requests, in arrival order
  aiHistoryResponse,    \* the last response of GET /api/ai-history
  transcripts,          \* length of session.transcripts
  webhookStatus,        \* status of the last response of POST /api/webhook
  clears,               \* the clear-sessions requests, in arrival order
  teamsManager,         \* the fields of the TeamsMessageManager singleton
  teamsSessions,        \* the sessions whose sessionData.teamsManager is set
  teamsReplies,         \* the activities sent in answer to the last Teams request
  clock                 \* Date.now(), as the number of Teams session starts so far

agentVars == <<phoneNumbers, conversationHistory, transcriptBuffer, batchCount,
               interviewerId>>
chanVars == <<threadTs, slackNudgeCount, sessionActive, smsNudgeCount, starts>>
teamsVars == <<teamsManager, teamsSessions, teamsReplies, clock>>
serverVars == <<INTEGRATION_MODES, sessions, issuedIds, agentVars, chanVars, calls, stops,
                aiHistoryResponse, transcripts, webhookStatus, clears>>
vars == <<serverVars, teamsVars>>

\* the sum of the numbers f[b], b in S
RECURSIVE Total(_, _)
Total(f, S) ==
  IF S = {} THEN 0
  ELSE LET b == CHOOSE x \in S : TRUE IN f[b] + Total(f, S \ {b})

\* ------------------------------------------------------ platform managers
\* this.slackThread is set iff SLACK is enabled (slackClient then exists)
HasSlack(b) == "SLACK" \in INTEGRATION_MODES
\* this.smsManager is set iff SMS is enabled and phone numbers were given
HasSms(b) == "SMS" \in INTEGRATION_MODES /\ Len(phoneNumbers[b]) > 0

NoSends == [c \in Channels |-> "none"]
NoEnds == [c \in EndChannels |-> "none"]
\* per platform: the session-start calls made and those not yet returned
NoStarts == [c \in EndChannels |-> [invoked |-> 0, pending |-> 0]]

\* ------------------------------------------------------------ AIAgent
BufferFullStrict(buf) == Len(buf) > batchSize

\* processTranscript: if (bufferLength >= this.batchSize)
BufferFull(buf) == Len(buf) >= batchSize

\* flushBuffer: if (this.transcriptBuffer.length > 0)
NeedsFlush(buf) == Len(buf) > 0

BufferRequeuedOnError(buf, batch) == batch \o buf

BufferKeptOnError(buf, batch) == buf

\* analyzeBatch, catch: this.transcriptBuffer = []
BufferAfterError(buf, batch) == <<>>

RecipientAsReturned(host, target) == target

\* analyzeBatch: sendPrivateChatMessage(this.botId, this.interviewerId, message)
Recipient(host, target) == host

AnySettled(sends) == \E c \in Channels : sends[c] # "pending"

\* analyzeBatch: await Promise.all(sendPromises)
AllSettled(sends) == \A c \in Channels : sends[c] # "pending"

SendFailedRethrown(call, c) == [call EXCEPT !.sends[c] = "fail", !.st = "error"]

\* one send promise settles with a failure: the manager's own try/catch (or
\* sendPrivateChatMessage's return false) and the .catch of analyzeBatch
\* swallow it
SendFailed(call, c) == [call EXCEPT !.sends[c] = "fail"]

\* a chat request without the to field: a message to everyone in the meeting
Public == "public"

ChatRecipientPublic(participantId) == Public

\* sendPrivateChatMessage: requestBody.to is set only if (participantId)
ChatRecipient(participantId) == IF participantId # Null THEN participantId ELSE Public

HostKnownAlways(host) == TRUE

\* analyzeBatch: if (this.interviewerId)
HostKnown(host) == host # Null

CountedBeforeGuard(send) == send \in {"pending", "noop"}

\* sendCoachingReply, sendCoachingNudge: this.nudgeCount++ comes after the
\* early return of a manager without thread (without active session)
Counted(send) == send = "pending"

\* analyzeBatch has returned: after its sends ("done"), through its catch
\* ("error") or through "No sales rep identified yet - skipping message"
Finished(call) == call.st \in {"done", "error", "skipped"}

\* analyzeBatch returns: its locals (the function call's arguments, the payload,
\* the settled send promises) are gone; a request still in flight stays
Returned(call) ==
  [call EXCEPT !.decision = "none", !.target = Null, !.to = Null,
               !.batchNumber = 0, !.messagesAnalyzed = 0,
               !.sends = [c \in Channels |->
                            IF call.sends[c] = "pending" THEN "pending" ELSE "none"]]

\* analyzeBatch up to await this.chat.sendMessage(batchMessage)
NewCall(b, batch, origin, stopIx) ==
  [ord |-> batchCount[b] + 1, events |-> batch, origin |-> origin, stop |-> stopIx,
   st |-> "calling", decision |-> "none", target |-> Null, to |-> Null,
   sends |-> NoSends, batchNumber |-> 0, messagesAnalyzed |-> 0]

ManagerOpenAlways(b, c) == TRUE

\* sendCoachingReply: if (!this.threadTs) return; sendCoachingNudge:
\* if (!this.sessionActive) return
ManagerOpen(b, c) == IF c = "SLACK" THEN threadTs[b] # Null ELSE sessionActive[b]

\* the send promises analyzeBatch builds for a send_message function call
Dispatch(b, call, target) ==
  LET sends == [c \in Channels |->
                 CASE c = "SLACK" ->
                        IF HasSlack(b)
                          THEN (IF ManagerOpen(b, c) THEN "pending" ELSE "noop")
                          ELSE "none"
                   [] c = "ZOOM_DM" ->
                        IF "ZOOM_DM" \in INTEGRATION_MODES THEN "pending" ELSE "none"
                   [] c = "SMS" ->
                        IF HasSms(b)
                          THEN (IF ManagerOpen(b, c) THEN "pending" ELSE "noop")
                          ELSE "none"]
  IN [call EXCEPT !.decision = "directive", !.target = target,
                  !.to = IF sends["ZOOM_DM"] = "pending"
                           THEN ChatRecipient(Recipient(interviewerId[b], target))
                           ELSE Null,
                  !.sends = sends,
                  !.batchNumber = batchCount[b],
                  !.messagesAnalyzed = messagesAnalyzedLiteral,
                  !.st = "sending"]

\* the requests one manager call makes: SMSManager sends to each phone number
\* (this.phoneNumbers.map), the other managers make one request
Requests(b, c) == IF c = "SMS" THEN Len(phoneNumbers[b]) ELSE 1

\* the outcomes of the requests of one manager call
Results(b, c) == [1..Requests(b, c) -> Outcomes]

\* the outcomes of the requests of any manager call
AnyResults == UNION {[1..n -> Outcomes] : n \in {1} \cup {Len(p) : p \in PhoneLists}}

\* await Promise.all(sendPromises) under the manager's try/catch: the call
\* goes through when every request succeeded, and into its catch otherwise
Broadcast(res) == IF \A i \in DOMAIN res : res[i] = "ok" THEN "ok" ELSE "fail"

\* ------------------------------------------------------------ stop flow
\* flushBuffer after its analyzeBatch: the end-of-session calls it issues
EndTargets(b) ==
  {c \in EndChannels :
     \/ c = "SLACK" /\ HasSlack(b) /\ threadTs[b] # Null
     \/ c = "SMS" /\ HasSms(b) /\ sessionActive[b]}

NewStop == [pc |-> "start", residue |-> 0, flushCall |-> 0, ends |-> NoEnds,
            totalNudges |-> [c \in EndChannels |-> 0]]

\* flushBuffer from "End sessions on all active platforms" to await Promise.all,
\* then, with nothing to await, the DELETE fetch of the stop-bot route
StopAfterFlush(b, s) ==
  LET tg == EndTargets(b)
  IN [s EXCEPT !.pc = IF tg = {} THEN "deleting" ELSE "ending",
               !.ends = [c \in EndChannels |-> IF c \in tg THEN "pending" ELSE "none"],
               !.totalNudges = [c \in EndChannels |->
                                  IF c \notin tg THEN 0
                                  ELSE IF c = "SLACK" THEN slackNudgeCount[b]
                                  ELSE smsNudgeCount[b]]]

StopNotAwaitingFlush(b, s) == StopAfterFlush(b, s)

\* flushBuffer: await this.analyzeBatch()
StopOnFlush(b, s) == [s EXCEPT !.pc = "flushing"]

EndFailedRaised(s, c) ==
  [s EXCEPT !.ends[c] = "settled", !.totalNudges[c] = 0, !.pc = "failed"]

\* an end-of-session call settles with a failure: the catch of
\* endSessionThread or endSession (and the .catch of flushBuffer) swallows it
EndFailed(s, c) == [s EXCEPT !.ends[c] = "settled", !.totalNudges[c] = 0]

\* the continuation of flushBuffer when the call it awaits has finished
ResumeStops(b, old, new) ==
  IF /\ old.origin = "flush" /\ ~Finished(old) /\ Finished(new)
     /\ stops[b][old.stop].pc = "flushing"
    THEN [stops EXCEPT ![b][old.stop] = StopAfterFlush(b, @)]
    ELSE stops

\* ------------------------------------------------------- clear-sessions
\* flushBuffer has returned to the clear-sessions route
FlushOf(s) == [s EXCEPT !.pc = IF @ = "deleting" THEN "flushed" ELSE @]

\* the clear-sessions route calls no flushBuffer for a session it did not find
NoFlush == [NewStop EXCEPT !.pc = "none"]

\* every promise of stopPromises has settled
AllStopped(cl) ==
  \A b \in BotIds : cl.flush[b].pc \in {"none", "flushed"} /\ cl.del[b] # "pending"

\* the continuation of the clear-sessions route after await
\* Promise.all(stopPromises): the route answers (its locals are gone)
Complete(cls) ==
  [n \in DOMAIN cls |->
     IF cls[n].pc = "waiting" /\ AllStopped(cls[n])
       THEN [pc |-> "done", flush |-> [b \in BotIds |-> NoFlush],
             del |-> [b \in BotIds |-> "none"]]
       ELSE cls[n]]

\* sessions.clear() of a clear-sessions request that completes in this task
Cleared(old, new, registry) ==
  IF new = <<>> THEN registry
  ELSE IF \E n \in DOMAIN new :
            new[n].pc = "done" /\ (n \notin DOMAIN old \/ old[n].pc = "waiting")
    THEN {} ELSE registry

\* the continuation of a flushBuffer that clear-sessions called, when the
\* call it awaits has finished, and then that of the route
ResumeClears(b, old, new) ==
  IF clears = <<>> THEN clears
  ELSE IF /\ old.origin = "clear" /\ ~Finished(old) /\ Finished(new)
          /\ clears[old.stop].flush[b].pc = "flushing"
    THEN Complete([clears EXCEPT ![old.stop].flush[b] = FlushOf(StopAfterFlush(b, @))])
    ELSE clears

\* no request to GET /api/ai-history was answered
NoResponse == [status |-> 0, history |-> <<>>]

\* new TeamsMessageManager(), no Teams request answered, no session hooked
TeamsInit ==
  /\ teamsManager = [conversationReferences |-> {}, nudgeCount |-> 0,
                     sessionStartTime |-> NoTime, hostUserId |-> Null,
                     sessionInfo |-> Null]
  /\ teamsSessions = {}
  /\ teamsReplies = [type |-> Null, from |-> Null, sent |-> <<>>]
  /\ clock = 0

\* ------------------------------------------------------------------ Init
InitWith(configs) ==
  /\ INTEGRATION_MODES \in configs
  /\ sessions = {}
  /\ issuedIds = {}
  /\ phoneNumbers = [b \in BotIds |-> <<>>]
  /\ conversationHistory = [b \in BotIds |-> <<>>]
  /\ transcriptBuffer = [b \in BotIds |-> <<>>]
  /\ batchCount = [b \in BotIds |-> 0]
  /\ interviewerId = [b \in BotIds |-> Null]
  /\ threadTs = [b \in BotIds |-> Null]
  /\ slackNudgeCount = [b \in BotIds |-> 0]
  /\ sessionActive = [b \in BotIds |-> FALSE]
  /\ smsNudgeCount = [b \in BotIds |-> 0]
  /\ starts = [b \in BotIds |-> NoStarts]
  /\ calls = [b \in BotIds |-> <<>>]
  /\ stops = [b \in BotIds |-> <<>>]
  /\ aiHistoryResponse = NoResponse
  /\ transcripts = [b \in BotIds |-> 0]
  /\ webhookStatus = 0
  /\ clears = <<>>
  /\ TeamsInit

\* every value of process.env.INTEGRATION
Init == InitWith(SUBSET Channels)

\* the default (in-meeting chat alone) and chat with the Slack thread
InitChatSlack == InitWith({{"ZOOM_DM"}, {"SLACK", "ZOOM_DM"}})

\* --------------------------------------------------------------- actions
\* POST /api/start-bot: the Recall API answers ok with a fresh bot id
StartBot(b, phones) ==
  /\ b \notin issuedIds
  /\ issuedIds' = issuedIds \cup {b}
  /\ sessions' = sessions \cup {b}
  /\ phoneNumbers' = [phoneNumbers EXCEPT ![b] = phones]
  /\ UNCHANGED <<INTEGRATION_MODES, conversationHistory, transcriptBuffer, batchCount,
                 interviewerId, chanVars, calls, stops>>
  /\ UNCHANGED <<aiHistoryResponse, transcripts, webhookStatus, teamsVars, clears>>

StartTargetsInTurn(b) ==
  IF HasSlack(b) /\ threadTs[b] = Null
    THEN {"SLACK"}
    ELSE {c \in EndChannels : c = "SMS" /\ HasSms(b)}

\* setInterviewer: the platforms whose session-start call it makes
StartTargets(b) ==
  {c \in EndChannels :
     \/ c = "SLACK" /\ HasSlack(b) /\ threadTs[b] = Null
     \/ c = "SMS" /\ HasSms(b)}

UnresolvedAlways(host) == TRUE

\* setInterviewer, processTranscript: !this.interviewerId
Unresolved(host) == host = Null

\* AIAgent.setInterviewer (an id the request lacks is undefined, here Null)
SetInterviewer(b, id) ==
  IF Unresolved(interviewerId[b])
    THEN /\ interviewerId' = [interviewerId EXCEPT ![b] = id]
         /\ starts' = [starts EXCEPT ![b] =
              [c \in EndChannels |->
                 IF c \in StartTargets(b)
                   THEN [invoked |-> @[c].invoked + 1, pending |-> @[c].pending + 1]
                   ELSE @[c]]]
         /\ sessionActive' = [sessionActive EXCEPT ![b] = IF HasSms(b) THEN TRUE ELSE @]
    ELSE UNCHANGED <<interviewerId, starts, sessionActive>>

\* AIAgent.processTranscript, with the synchronous head of analyzeBatch
ProcessTranscript(b, pid, isHost) ==
  LET id == Len(conversationHistory[b]) + 1
      buf == Append(transcriptBuffer[b], id)
  IN /\ IF isHost /\ Unresolved(interviewerId[b])
          THEN SetInterviewer(b, pid)
          ELSE UNCHANGED <<interviewerId, starts, sessionActive>>
     /\ conversationHistory' = [conversationHistory EXCEPT ![b] = Append(@, id)]
     /\ IF BufferFull(buf)
          THEN /\ batchCount' = [batchCount EXCEPT ![b] = @ + 1]
               /\ transcriptBuffer' = [transcriptBuffer EXCEPT ![b] = <<>>]
               /\ calls' = [calls EXCEPT ![b] = Append(@, NewCall(b, buf, "ingest", 0))]
          ELSE /\ transcriptBuffer' = [transcriptBuffer EXCEPT ![b] = buf]
               /\ UNCHANGED <<batchCount, calls>>

\* the webhook requests tried: every final transcript and every join of a known
\* participant, a partial transcript and a transcript without text
WebhookInputs ==
  {[secretOk |-> TRUE, event |-> e, pid |-> p, isHost |-> (p \in Hosts), words |-> "w"] :
     e \in {"transcript.data", "participant_events.join"}, p \in Participants}
  \cup {[secretOk |-> TRUE, event |-> "transcript.partial_data", pid |-> "p1",
          isHost |-> TRUE, words |-> "w"],
         [secretOk |-> TRUE, event |-> "transcript.data", pid |-> "p1",
          isHost |-> TRUE, words |-> ""]}

\* a request whose secret is not the configured one
UnauthorizedInputs ==
  {[secretOk |-> FALSE, event |-> "transcript.data", pid |-> "p1",
    isHost |-> TRUE, words |-> "w"]}

\* a final transcript whose participant object carries no id
IdlessTranscripts ==
  {[secretOk |-> TRUE, event |-> "transcript.data", pid |-> Null,
    isHost |-> TRUE, words |-> "w"]}

\* the final transcripts and the joins of the co-host
CoHostInputs ==
  {[secretOk |-> TRUE, event |-> e, pid |-> CoHost, isHost |-> TRUE, words |-> "w"] :
     e \in {"transcript.data", "participant_events.join"}}

\* a host join whose participant object carries no id
IdlessJoinInputs ==
  {[secretOk |-> TRUE, event |-> "participant_events.join", pid |-> Null,
    isHost |-> TRUE, words |-> "w"]}

SessionOfFirst(b) == CHOOSE x \in BotIds : x \in sessions

\* sessions.get(bot_id): the session registered under the id
SessionOf(b) == b

AuthorizedAlways(in) == TRUE

\* POST /api/webhook: req.query.secret !== process.env.WEBHOOK_SECRET
Authorized(in) == in.secretOk

\* POST /api/webhook: a final transcript with text (it is pushed to
\* session.transcripts and broadcast)
Final(in) == in.event = "transcript.data" /\ in.words # ""

BatchedWithoutId(in) == Final(in)

\* POST /api/webhook: if (session.aiAgent && participantId)
Batched(in) == Final(in) /\ in.pid # Null

\* POST /api/webhook
Webhook(b, in) ==
  /\ Total(transcripts, BotIds) < MaxEvents
  /\ (in.event = "participant_events.join" /\ in.pid = Null) =>
        \A c \in EndChannels : starts[b][c].invoked < MaxStarts - 1
  /\ webhookStatus' = IF Authorized(in) THEN 200 ELSE 401
  /\ transcripts' = IF Authorized(in) /\ b \in sessions /\ Final(in)
                      THEN [transcripts EXCEPT ![SessionOf(b)] = @ + 1]
                      ELSE transcripts
  /\ IF ~Authorized(in) \/ b \notin sessions
       THEN UNCHANGED <<agentVars, chanVars, calls>>
       ELSE IF Batched(in)
         THEN /\ ProcessTranscript(SessionOf(b), in.pid, in.isHost)
              /\ UNCHANGED <<phoneNumbers, threadTs, slackNudgeCount, smsNudgeCount>>
       ELSE IF in.event = "participant_events.join" /\ in.isHost
         THEN /\ SetInterviewer(SessionOf(b), in.pid)
              /\ UNCHANGED <<phoneNumbers, conversationHistory, transcriptBuffer,
                             batchCount, threadTs, slackNudgeCount, smsNudgeCount, calls>>
       ELSE UNCHANGED <<agentVars, chanVars, calls>>
  /\ UNCHANGED <<INTEGRATION_MODES, sessions, issuedIds, stops>>
  /\ UNCHANGED <<aiHistoryResponse, teamsVars, clears>>

\* a session-start call of setInterviewer returns
StartReturn(b, c, res) ==
  /\ starts[b][c].pending > 0
  /\ starts' = [starts EXCEPT ![b][c].pending = @ - 1]
  /\ threadTs' = IF c = "SLACK" /\ res = "ok"
                   THEN [threadTs EXCEPT ![b] = "ts"] ELSE threadTs
  /\ UNCHANGED <<INTEGRATION_MODES, sessions, issuedIds, agentVars, slackNudgeCount,
                 sessionActive, smsNudgeCount, calls, stops>>
  /\ UNCHANGED <<aiHistoryResponse, transcripts, webhookStatus, teamsVars, clears>>

Decisions == {"failed", "noaction", "directive"}

\* chat.sendMessage of call k returns; analyzeBatch runs on to its next await
AnalyzeReturn(b, k, decision, target) ==
  /\ k \in DOMAIN calls[b]
  /\ calls[b][k].st = "calling"
  /\ decision = "directive" <=> target # Null
  /\ LET old == calls[b][k]
         acts == decision = "directive" /\ HostKnown(interviewerId[b])
         new == CASE decision = "failed" -> [old EXCEPT !.st = "error"]
                  [] acts ->
                       LET sent == Dispatch(b, old, target)
                       IN IF AllSettled(sent.sends)
                            THEN Returned([sent EXCEPT !.st = "done"]) ELSE sent
                  [] decision = "directive" -> [old EXCEPT !.st = "skipped"]
                  [] OTHER -> [old EXCEPT !.st = "done"]
     IN /\ calls' = [calls EXCEPT ![b][k] = new]
        /\ transcriptBuffer' =
             IF decision = "failed"
               THEN [transcriptBuffer EXCEPT ![b] = BufferAfterError(@, old.events)]
               ELSE transcriptBuffer
        /\ slackNudgeCount' =
             IF acts /\ Counted(new.sends["SLACK"])
               THEN [slackNudgeCount EXCEPT ![b] = @ + 1] ELSE slackNudgeCount
        /\ smsNudgeCount' =
             IF acts /\ Counted(new.sends["SMS"])
               THEN [smsNudgeCount EXCEPT ![b] = @ + 1] ELSE smsNudgeCount
        /\ stops' = ResumeStops(b, old, new)
        /\ clears' = ResumeClears(b, old, new)
  /\ sessions' = Cleared(clears, clears', sessions)
  /\ UNCHANGED <<INTEGRATION_MODES, issuedIds, phoneNumbers,
                 conversationHistory, batchCount, interviewerId, threadTs,
                 sessionActive, starts>>
  /\ UNCHANGED <<aiHistoryResponse, transcripts, webhookStatus, teamsVars>>

\* one send promise of call k settles, its requests having returned res
SendReturn(b, k, c, res) ==
  /\ k \in DOMAIN calls[b]
  /\ calls[b][k].sends[c] = "pending"
  /\ res \in Results(b, c)
  /\ LET old == calls[b][k]
         set == IF Broadcast(res) = "ok"
                  THEN [old EXCEPT !.sends[c] = "ok"] ELSE SendFailed(old, c)
         new == IF set.st = "sending" /\ AllSettled(set.sends)
                  THEN Returned([set EXCEPT !.st = "done"])
                  ELSE IF Finished(set) THEN Returned(set) ELSE set
     IN /\ calls' = [calls EXCEPT ![b][k] = new]
        /\ stops' = ResumeStops(b, old, new)
        /\ clears' = ResumeClears(b, old, new)
  /\ sessions' = Cleared(clears, clears', sessions)
  /\ UNCHANGED <<INTEGRATION_MODES, issuedIds, agentVars, chanVars>>
  /\ UNCHANGED <<aiHistoryResponse, transcripts, webhookStatus, teamsVars>>

\* POST /api/stop-bot/:botId up to its first await
StopBot(b) ==
  /\ Total([x \in BotIds |-> Len(stops[x])], BotIds) < MaxStops
  /\ LET t == Len(stops[b]) + 1
         buf == transcriptBuffer[b]
         s0 == [NewStop EXCEPT !.residue = IF b \in sessions THEN Len(buf) ELSE 0]
     IN IF b \in sessions
          THEN IF NeedsFlush(buf)
                 THEN /\ batchCount' = [batchCount EXCEPT ![b] = @ + 1]
                      /\ transcriptBuffer' = [transcriptBuffer EXCEPT ![b] = <<>>]
                      /\ calls' = [calls EXCEPT ![b] =
                                     Append(@, NewCall(b, buf, "flush", t))]
                      /\ stops' = [stops EXCEPT ![b] =
                                     Append(@, StopOnFlush(b,
                                       [s0 EXCEPT !.flushCall = Len(calls[b]) + 1]))]
                 ELSE /\ stops' = [stops EXCEPT ![b] = Append(@, StopAfterFlush(b, s0))]
                      /\ UNCHANGED <<batchCount, transcriptBuffer, calls>>
          ELSE /\ stops' = [stops EXCEPT ![b] = Append(@, [s0 EXCEPT !.pc = "deleting"])]
               /\ UNCHANGED <<batchCount, transcriptBuffer, calls>>
  /\ UNCHANGED <<INTEGRATION_MODES, sessions, issuedIds, phoneNumbers,
                 conversationHistory, interviewerId, chanVars>>
  /\ UNCHANGED <<aiHistoryResponse, transcripts, webhookStatus, teamsVars, clears>>

\* an end-of-session call of stop request t settles, its requests having
\* returned res
EndReturn(b, t, c, res) ==
  /\ t \in DOMAIN stops[b]
  /\ stops[b][t].ends[c] = "pending"
  /\ res \in Results(b, c)
  /\ LET set == IF Broadcast(res) = "ok"
                  THEN [stops[b][t] EXCEPT !.ends[c] = "settled", !.totalNudges[c] = 0]
                  ELSE EndFailed(stops[b][t], c)
         new == IF set.pc = "ending" /\ \A d \in EndChannels : set.ends[d] # "pending"
                  THEN [set EXCEPT !.pc = "deleting"] ELSE set
     IN stops' = [stops EXCEPT ![b][t] = new]
  /\ IF c = "SLACK" /\ Broadcast(res) = "ok"
       THEN /\ threadTs' = [threadTs EXCEPT ![b] = Null]
            /\ slackNudgeCount' = [slackNudgeCount EXCEPT ![b] = 0]
       ELSE UNCHANGED <<threadTs, slackNudgeCount>>
  /\ IF c = "SMS" /\ Broadcast(res) = "ok"
       THEN /\ sessionActive' = [sessionActive EXCEPT ![b] = FALSE]
            /\ smsNudgeCount' = [smsNudgeCount EXCEPT ![b] = 0]
       ELSE UNCHANGED <<sessionActive, smsNudgeCount>>
  /\ UNCHANGED <<INTEGRATION_MODES, sessions, issuedIds, agentVars, starts, calls>>
  /\ UNCHANGED <<aiHistoryResponse, transcripts, webhookStatus, teamsVars, clears>>

\* the DELETE fetch of stop request t settles and the route answers (its locals
\* are gone)
DeleteReturn(b, t, res) ==
  /\ t \in DOMAIN stops[b]
  /\ stops[b][t].pc = "deleting"
  /\ stops' = [stops EXCEPT ![b][t] =
                  [NewStop EXCEPT !.pc = IF res = "ok" THEN "done" ELSE "failed"]]
  /\ sessions' = IF res = "ok" THEN sessions \ {b} ELSE sessions
  /\ UNCHANGED <<INTEGRATION_MODES, issuedIds, agentVars, chanVars, calls>>
  /\ UNCHANGED <<aiHistoryResponse, transcripts, webhookStatus, teamsVars, clears>>

\* POST /api/clear-sessions up to await Promise.all(stopPromises): for every
\* session of the registry flushBuffer up to its first await and the DELETE
\* fetch
ClearSessions ==
  /\ Len(clears) < MaxClears
  /\ LET n == Len(clears) + 1
         flushing == {b \in sessions : NeedsFlush(transcriptBuffer[b])}
         cl == [pc |-> "waiting",
                flush |-> [b \in BotIds |->
                   IF b \in flushing
                     THEN [NewStop EXCEPT !.pc = "flushing",
                                          !.residue = Len(transcriptBuffer[b]),
                                          !.flushCall = Len(calls[b]) + 1]
                   ELSE IF b \in sessions THEN FlushOf(StopAfterFlush(b, NewStop))
                   ELSE NoFlush],
                del |-> [b \in BotIds |-> IF b \in sessions THEN "pending" ELSE "none"]]
     IN /\ batchCount' = [b \in BotIds |->
                            IF b \in flushing THEN batchCount[b] + 1 ELSE batchCount[b]]
        /\ transcriptBuffer' = [b \in BotIds |->
                                  IF b \in flushing THEN <<>> ELSE transcriptBuffer[b]]
        /\ calls' = [b \in BotIds |->
                       IF b \in flushing
                         THEN Append(calls[b], NewCall(b, transcriptBuffer[b], "clear", n))
                         ELSE calls[b]]
        /\ clears' = Complete(Append(clears, cl))
  /\ sessions' = Cleared(clears, clears', sessions)
  /\ UNCHANGED <<INTEGRATION_MODES, issuedIds, phoneNumbers, conversationHistory,
                 interviewerId, chanVars, stops>>
  /\ UNCHANGED <<aiHistoryResponse, transcripts, webhookStatus, teamsVars>>

\* an end-of-session call of clear-sessions request n for session b settles,
\* its requests having returned res
ClearEndReturn(n, b, c, res) ==
  /\ n \in DOMAIN clears
  /\ clears[n].flush[b].ends[c] = "pending"
  /\ res \in Results(b, c)
  /\ LET old == clears[n].flush[b]
         set == IF Broadcast(res) = "ok"
                  THEN [old EXCEPT !.ends[c] = "settled", !.totalNudges[c] = 0]
                  ELSE EndFailed(old, c)
         new == IF set.pc = "ending" /\ \A d \in EndChannels : set.ends[d] # "pending"
                  THEN [set EXCEPT !.pc = "flushed"] ELSE set
     IN clears' = Complete([clears EXCEPT ![n].flush[b] = new])
  /\ IF c = "SLACK" /\ Broadcast(res) = "ok"
       THEN /\ threadTs' = [threadTs EXCEPT ![b] = Null]
            /\ slackNudgeCount' = [slackNudgeCount EXCEPT ![b] = 0]
       ELSE UNCHANGED <<threadTs, slackNudgeCount>>
  /\ IF c = "SMS" /\ Broadcast(res) = "ok"
       THEN /\ sessionActive' = [sessionActive EXCEPT ![b] = FALSE]
            /\ smsNudgeCount' = [smsNudgeCount EXCEPT ![b] = 0]
       ELSE UNCHANGED <<sessionActive, smsNudgeCount>>
  /\ sessions' = Cleared(clears, clears', sessions)
  /\ UNCHANGED <<INTEGRATION_MODES, issuedIds, agentVars, starts, calls, stops>>
  /\ UNCHANGED <<aiHistoryResponse, transcripts, webhookStatus, teamsVars>>

\* the DELETE fetch of clear-sessions request n for session b settles (a
\* failure is caught and logged)
ClearDeleteReturn(n, b, res) ==
  /\ n \in DOMAIN clears
  /\ clears[n].del[b] = "pending"
  /\ clears' = Complete([clears EXCEPT ![n].del[b] = "settled"])
  /\ sessions' = Cleared(clears, clears', sessions)
  /\ UNCHANGED <<INTEGRATION_MODES, issuedIds, agentVars, chanVars, calls, stops>>
  /\ UNCHANGED <<aiHistoryResponse, transcripts, webhookStatus, teamsVars>>

getConversationSummaryFirst(h) ==
  SubSeq(h, 1, IF Len(h) > summaryLength THEN summaryLength ELSE Len(h))

\* AIAgent.getConversationSummary: this.conversationHistory.slice(-10)
getConversationSummary(h) ==
  SubSeq(h, IF Len(h) > summaryLength THEN Len(h) - summaryLength + 1 ELSE 1, Len(h))

\* GET /api/ai-history/:botId
AiHistory(b) ==
  /\ aiHistoryResponse' =
       IF b \notin sessions
         THEN [status |-> 404, history |-> <<>>]
         ELSE [status |-> 200,
               history |-> getConversationSummary(conversationHistory[b])]
  /\ UNCHANGED <<INTEGRATION_MODES, sessions, issuedIds, agentVars, chanVars, calls,
                 stops, transcripts, webhookStatus, teamsVars, clears>>

\* nothing of the agent of session b is in flight
Quiescent(b) ==
  /\ \A k \in DOMAIN calls[b] :
       Finished(calls[b][k]) /\ \A c \in Channels : calls[b][k].sends[c] # "pending"
  /\ \A c \in EndChannels : starts[b][c].pending = 0
  /\ \A t \in DOMAIN stops[b] : stops[b][t].pc \in {"done", "failed"}

\* POST /api/start-bot when the Recall API answers with the id of a session the
\* registry holds: sessions.set replaces the entry by a new AIAgent (taken when
\* nothing of the replaced agent is in flight, which then is unreachable)
StartBotAgain(b, phones) ==
  /\ transcripts' = [transcripts EXCEPT ![b] = 0]
  /\ b \in sessions
  /\ Quiescent(b)
  /\ phoneNumbers' = [phoneNumbers EXCEPT ![b] = phones]
  /\ conversationHistory' = [conversationHistory EXCEPT ![b] = <<>>]
  /\ transcriptBuffer' = [transcriptBuffer EXCEPT ![b] = <<>>]
  /\ batchCount' = [batchCount EXCEPT ![b] = 0]
  /\ interviewerId' = [interviewerId EXCEPT ![b] = Null]
  /\ threadTs' = [threadTs EXCEPT ![b] = Null]
  /\ slackNudgeCount' = [slackNudgeCount EXCEPT ![b] = 0]
  /\ sessionActive' = [sessionActive EXCEPT ![b] = FALSE]
  /\ smsNudgeCount' = [smsNudgeCount EXCEPT ![b] = 0]
  /\ starts' = [starts EXCEPT ![b] = NoStarts]
  /\ calls' = [calls EXCEPT ![b] = <<>>]
  /\ UNCHANGED <<INTEGRATION_MODES, sessions, issuedIds, stops>>
  /\ UNCHANGED <<aiHistoryResponse, webhookStatus, teamsVars, clears>>

\* ------------------------------------------------- Teams direct messages
ActivityTypes == {"message", "installationUpdate", "conversationUpdate"}

\* TeamsMessageManager.storeConversationReference
storeConversationReference(m, userId) ==
  [m EXCEPT !.conversationReferences = @ \cup {userId}]

\* handleTeamsWebhook: if (!teamsManager.conversationReferences.has(userId)),
\* read after storeConversationReference has run
FirstInteraction(m, userId) == userId \notin m.conversationReferences

\* startSession, sendCoachingMessage, endSession: the manager has a host and
\* a conversation reference for it
CanReach(m) == m.hostUserId # Null /\ m.hostUserId \in m.conversationReferences

\* handleTeamsWebhook for an activity of user u; flag says that a message has
\* text, that an installationUpdate has action add, that a conversationUpdate
\* adds a member other than the bot
HandleTeamsWebhook(u, type, flag) ==
  LET stored == IF type = "message" \/ (type = "conversationUpdate" /\ flag)
                  THEN storeConversationReference(teamsManager, u)
                  ELSE teamsManager
      welcome == IF type = "message" /\ FirstInteraction(stored, u)
                   THEN <<"welcome">> ELSE <<>>
      echo == IF type = "message" /\ flag THEN <<"echo">> ELSE <<>>
      thanks == IF type = "installationUpdate" /\ flag THEN <<"thanks">> ELSE <<>>
  IN /\ teamsManager' = stored
     /\ teamsReplies' = [type |-> type, from |-> u, sent |-> welcome \o echo \o thanks]
     /\ UNCHANGED <<teamsSessions, clock, serverVars>>

\* onSessionStart for a Teams session s whose sessionData.hostUserId is host
\* (setHost, startSession), the welcome card having been sent with outcome res
OnSessionStart(s, host, res) ==
  /\ clock < MaxStarts
  /\ clock' = clock + 1
  /\ LET m == [teamsManager EXCEPT !.hostUserId = host, !.sessionInfo = s,
                                   !.sessionStartTime = clock + 1, !.nudgeCount = 0]
     IN /\ teamsManager' = m
        /\ teamsSessions' = IF CanReach(m) /\ res = "fail"
                               THEN teamsSessions ELSE teamsSessions \cup {s}
  /\ UNCHANGED <<teamsReplies, serverVars>>

\* onCoachingMessage for a session that has the Teams manager
\* (sendCoachingMessage; a failed send is caught and logged)
OnCoachingMessage(s) ==
  /\ s \in teamsSessions
  /\ teamsManager.nudgeCount < MaxNudges
  /\ teamsManager' = IF CanReach(teamsManager)
                        THEN [teamsManager EXCEPT !.nudgeCount = @ + 1]
                        ELSE teamsManager
  /\ UNCHANGED <<teamsSessions, teamsReplies, clock, serverVars>>

\* onSessionEnd for a session that has the Teams manager (endSession), the
\* summary card having been sent with outcome res
OnSessionEnd(s, res) ==
  /\ s \in teamsSessions
  /\ teamsManager' = IF CanReach(teamsManager) /\ res = "ok"
                        THEN [teamsManager EXCEPT !.nudgeCount = 0,
                                                  !.sessionStartTime = NoTime]
                        ELSE teamsManager
  /\ UNCHANGED <<teamsSessions, teamsReplies, clock, serverVars>>

\* the analyzeBatch invocations of one run of the model, at most: one for
\* every batchSize events ingested and one for every stop or clear-sessions
\* request
MaxCalls == (MaxEvents \div batchSize) + MaxStops + MaxClears

\* the steps of bot creation and of the webhook, for the bot ids `bots` and the
\* webhook requests `inputs`
Ingesting(bots, inputs) ==
  \/ \E b \in bots, phones \in PhoneLists : StartBot(b, phones)
  \/ \E b \in bots, in \in inputs : Webhook(b, in)
  \/ \E b \in bots, c \in EndChannels, res \in Outcomes : StartReturn(b, c, res)

\* the returns of the reasoning calls, for the participant ids `targets` a
\* send_message function call may name
Analyzing(bots, targets) ==
  \E b \in bots, k \in 1..MaxCalls, d \in Decisions,
     target \in targets : AnalyzeReturn(b, k, d, target)

\* the returns of the sends of the directives
Sending(bots) ==
  \E b \in bots, k \in 1..MaxCalls, c \in Channels,
     res \in AnyResults : SendReturn(b, k, c, res)

\* the steps of a meeting in progress
Meeting(bots, inputs, targets) ==
  Ingesting(bots, inputs) \/ Analyzing(bots, targets) \/ Sending(bots)

\* the steps of the stop-bot route
Stopping(bots) ==
  \/ \E b \in bots : StopBot(b)
  \/ \E b \in bots, t \in 1..MaxStops, c \in EndChannels, res \in AnyResults :
        EndReturn(b, t, c, res)
  \/ \E b \in bots, t \in 1..MaxStops, res \in Outcomes : DeleteReturn(b, t, res)

\* the steps of the clear-sessions route
Clearing(bots) ==
  \/ ClearSessions
  \/ \E n \in 1..MaxClears, b \in bots, c \in EndChannels, res \in AnyResults :
        ClearEndReturn(n, b, c, res)
  \/ \E n \in 1..MaxClears, b \in bots, res \in Outcomes : ClearDeleteReturn(n, b, res)

\* the steps of the server with one session
NextOn(inputs, targets) == Meeting(OneBot, inputs, targets) \/ Stopping(OneBot)

\* a meeting with one host, whose events all carry participant ids
Next == NextOn(WebhookInputs, Participants \cup {Null})

\* a meeting with a host and a co-host
NextCoHost == NextOn(WebhookInputs \cup CoHostInputs, Participants \cup {CoHost, Null})

\* a meeting whose host joins may lack the participant id
NextIdlessJoin == NextOn(WebhookInputs \cup IdlessJoinInputs, Participants \cup {Null})

Spec == Init /\ [][Next]_vars

SpecChatSlack == InitChatSlack /\ [][Next]_vars

\* chat with the Slack thread
InitSlack == InitWith({{"SLACK", "ZOOM_DM"}})

\* the Slack thread alone
InitSlackOnly == InitWith({{"SLACK"}})

SpecCoHost == InitSlackOnly /\ [][NextCoHost]_vars

SpecIdlessJoin == InitSlack /\ [][NextIdlessJoin]_vars

\* the Recall API may answer a create request with a bot id it answered before
NextReissue ==
  \/ Next
  \/ \E b \in OneBot, phones \in PhoneLists : StartBotAgain(b, phones)

SpecReissue == InitChatSlack /\ [][NextReissue]_vars

\* the Slack thread with the SMS broadcast
InitSlackSms == InitWith({{"SLACK", "SMS"}})

\* the Slack thread with the SMS broadcast, while the meeting is in progress
\* (no stop requested)
NextMeeting == Meeting(OneBot, WebhookInputs, Participants \cup {Null})

SpecMeeting == InitSlackSms /\ [][NextMeeting]_vars

\* the final transcripts of the host
HostTranscripts ==
  {in \in WebhookInputs :
     in.secretOk /\ in.event = "transcript.data" /\ in.words # "" /\ in.pid \in Hosts}

\* the Slack thread with the SMS broadcast, in a meeting where the host alone
\* speaks and the reasoning engine returns no directive
NextNoDirective ==
  Ingesting(OneBot, HostTranscripts) \/ Analyzing(OneBot, {Null}) \/ Stopping(OneBot)

SpecNoDirective == InitSlackSms /\ [][NextNoDirective]_vars

\* two sessions on the Slack thread, in meetings where the host alone speaks:
\* the one has directives dispatched, the other is stopped
NextTwoSessions ==
  \/ Ingesting(BotIds, HostTranscripts)
  \/ Analyzing(OneBot, Hosts \cup {Null}) \/ Sending(OneBot)
  \/ Analyzing(BotIds \ OneBot, {Null}) \/ Stopping(BotIds \ OneBot)

SpecTwoSessions == InitSlackOnly /\ [][NextTwoSessions]_vars

\* the final transcripts of the participants who are not host
ProspectTranscripts ==
  {in \in WebhookInputs :
     /\ in.secretOk /\ in.event = "transcript.data" /\ in.words # ""
     /\ in.pid \in Participants \ Hosts}

\* the server late in a meeting: session b1 has n events of prospects behind
\* it, their full batches analysed without a directive
InitLate ==
  \E n \in 0..MaxBefore :
    /\ INTEGRATION_MODES \in {{"ZOOM_DM"}, {"SLACK", "ZOOM_DM"}}
    /\ sessions = OneBot
    /\ issuedIds = OneBot
    /\ phoneNumbers = [b \in BotIds |-> <<>>]
    /\ conversationHistory = [b \in BotIds |-> IF b \in OneBot THEN [i \in 1..n |-> i] ELSE <<>>]
    /\ transcriptBuffer =
         [b \in BotIds |-> IF b \in OneBot
            THEN [i \in 1..(n % batchSize) |-> batchSize * (n \div batchSize) + i]
            ELSE <<>>]
    /\ batchCount = [b \in BotIds |-> IF b \in OneBot THEN n \div batchSize ELSE 0]
    /\ interviewerId = [b \in BotIds |-> Null]
    /\ threadTs = [b \in BotIds |-> Null]
    /\ slackNudgeCount = [b \in BotIds |-> 0]
    /\ sessionActive = [b \in BotIds |-> FALSE]
    /\ smsNudgeCount = [b \in BotIds |-> 0]
    /\ starts = [b \in BotIds |-> NoStarts]
    /\ calls = [b \in BotIds |-> IF b \in OneBot
                 THEN [k \in 1..(n \div batchSize) |->
                         [ord |-> k,
                          events |-> [i \in 1..batchSize |-> batchSize * (k - 1) + i],
                          origin |-> "ingest", stop |-> 0, st |-> "done",
                          decision |-> "none", target |-> Null, to |-> Null,
                          sends |-> NoSends, batchNumber |-> 0, messagesAnalyzed |-> 0]]
                 ELSE <<>>]
    /\ stops = [b \in BotIds |-> <<>>]
    /\ aiHistoryResponse = NoResponse
    /\ transcripts = [b \in BotIds |-> IF b \in OneBot THEN n ELSE 0]
    /\ webhookStatus = 200
    /\ clears = <<>>
    /\ TeamsInit

\* prospects speak, the reasoning engine returns no directive, and the
\* conversation history is looked up
NextLookup ==
  \/ \E b \in OneBot, in \in ProspectTranscripts : Webhook(b, in)
  \/ Analyzing(OneBot, {Null})
  \/ \E b \in BotIds : AiHistory(b)

SpecLookup == InitLate /\ [][NextLookup]_vars

\* the Slack thread with the SMS broadcast, while the meeting is in progress,
\* with requests the webhook turns down
NextRejects ==
  Meeting(OneBot, WebhookInputs \cup UnauthorizedInputs \cup IdlessTranscripts,
          Participants \cup {Null})

SpecRejects == InitSlackSms /\ [][NextRejects]_vars

\* a meeting under way, where the host alone speaks, with directives and stop
\* requests
NextClosing ==
  \/ \E b \in OneBot, in \in HostTranscripts : Webhook(b, in)
  \/ Analyzing(OneBot, Hosts \cup {Null})
  \/ Sending(OneBot)
  \/ Stopping(OneBot)

\* chat with the Slack thread, or chat with the SMS broadcast, after session
\* b1 was created, the first transcript of its host has come in and the
\* session-start call of the platform has returned successfully
InitOpen ==
  \E host \in Hosts :
    /\ INTEGRATION_MODES \in {{"SLACK", "ZOOM_DM"}, {"SMS", "ZOOM_DM"}}
    /\ sessions = OneBot
    /\ issuedIds = OneBot
    /\ phoneNumbers \in {[b \in BotIds |-> IF b \in OneBot THEN p ELSE <<>>] :
                            p \in PhoneLists}
    /\ conversationHistory = [b \in BotIds |-> IF b \in OneBot THEN <<1>> ELSE <<>>]
    /\ transcriptBuffer = [b \in BotIds |-> IF b \in OneBot THEN <<1>> ELSE <<>>]
    /\ batchCount = [b \in BotIds |-> 0]
    /\ interviewerId = [b \in BotIds |-> IF b \in OneBot THEN host ELSE Null]
    /\ threadTs = [b \in BotIds |->
                     IF b \in OneBot /\ "SLACK" \in INTEGRATION_MODES THEN "ts" ELSE Null]
    /\ slackNudgeCount = [b \in BotIds |-> 0]
    /\ sessionActive = [b \in BotIds |-> b \in OneBot /\ "SMS" \in INTEGRATION_MODES]
    /\ smsNudgeCount = [b \in BotIds |-> 0]
    /\ starts = [b \in BotIds |->
                   [c \in EndChannels |->
                      [invoked |-> IF b \in OneBot /\ c \in INTEGRATION_MODES THEN 1 ELSE 0,
                       pending |-> 0]]]
    /\ calls = [b \in BotIds |-> <<>>]
    /\ stops = [b \in BotIds |-> <<>>]
    /\ aiHistoryResponse = NoResponse
    /\ transcripts = [b \in BotIds |-> IF b \in OneBot THEN 1 ELSE 0]
    /\ webhookStatus = 200
    /\ clears = <<>>
    /\ TeamsInit

SpecClosing == InitOpen /\ [][NextClosing]_vars

\* the Slack thread with stop and clear-sessions requests: a session whose
\* host alone speaks and gets no directive, and a second bot that may be
\* created at any time
NextClear ==
  \/ \E b \in BotIds, phones \in PhoneLists : StartBot(b, phones)
  \/ \E b \in OneBot, in \in HostTranscripts : Webhook(b, in)
  \/ \E b \in OneBot, c \in EndChannels, res \in Outcomes : StartReturn(b, c, res)
  \/ Analyzing(OneBot, {Null})
  \/ Stopping(OneBot)
  \/ Clearing(BotIds)

SpecClear == InitSlackOnly /\ [][NextClear]_vars

\* the Teams webhook and the session hooks
NextTeams ==
  \/ \E u \in TeamsUsers, type \in ActivityTypes, flag \in BOOLEAN :
        HandleTeamsWebhook(u, type, flag)
  \/ \E s \in TeamsSessionIds, host \in TeamsUsers \cup {Null}, res \in Outcomes :
        OnSessionStart(s, host, res)
  \/ \E s \in TeamsSessionIds : OnCoachingMessage(s)
  \/ \E s \in TeamsSessionIds, res \in Outcomes : OnSessionEnd(s, res)

SpecTeams == InitWith({{"ZOOM_DM"}}) /\ [][NextTeams]_vars

\* ---------------------------------------------------------------- claims
CallIds(b) == DOMAIN calls[b]
StopIds(b) == DOMAIN stops[b]
Range(q) == {q[i] : i \in DOMAIN q}

\* the platforms whose manager analyzeBatch calls for a directive
EnabledChannels(b) ==
  {c \in Channels :
     \/ c = "SLACK" /\ HasSlack(b)
     \/ c = "ZOOM_DM" /\ "ZOOM_DM" \in INTEGRATION_MODES
     \/ c = "SMS" /\ HasSms(b)}

\* C1: for every session at most one reasoning call (chat.sendMessage of
\* analyzeBatch) is outstanding at any time.
C1_OneCallInFlight ==
  \A b \in BotIds : Cardinality({k \in CallIds(b) : calls[b][k].st = "calling"}) <= 1

\* C2: every in-meeting chat message dispatched for a directive is addressed to
\* the host (interviewerId), never to the participant the reasoning engine named
\* when that is someone else.
C2_SendsToHost ==
  \A b \in BotIds : \A k \in CallIds(b) :
    LET c == calls[b][k]
    IN c.sends["ZOOM_DM"] # "none" =>
         /\ interviewerId[b] # Null
         /\ c.to = interviewerId[b]
         /\ (c.target # interviewerId[b] => c.to # c.target)

C2_Witness ==
  \E b \in BotIds : \E k \in CallIds(b) :
    /\ calls[b][k].sends["ZOOM_DM"] = "pending"
    /\ calls[b][k].target # Null
    /\ calls[b][k].target # interviewerId[b]

\* C3: an ingested event starts a reasoning call if and only if it brings the
\* number of buffered events to exactly batchSize, the call then carries exactly
\* batchSize events and empties the buffer; a batch of fewer than batchSize
\* events is only ever submitted by the flush of a stop.
C3_IngestStep(b) ==
  Len(conversationHistory'[b]) = Len(conversationHistory[b]) + 1 =>
    LET reached == Len(transcriptBuffer[b]) + 1 = batchSize
        emitted == Len(calls'[b]) = Len(calls[b]) + 1
        last == calls'[b][Len(calls'[b])]
    IN /\ Len(calls'[b]) \in {Len(calls[b]), Len(calls[b]) + 1}
       /\ emitted <=> reached
       /\ emitted => /\ last.origin = "ingest"
                     /\ Len(last.events) = batchSize
                     /\ last.events = Append(transcriptBuffer[b], Len(conversationHistory'[b]))
                     /\ transcriptBuffer'[b] = <<>>
       /\ ~emitted => transcriptBuffer'[b] =
                        Append(transcriptBuffer[b], Len(conversationHistory'[b]))

C3_BatchSizes ==
  \A b \in BotIds : \A k \in CallIds(b) :
    /\ calls[b][k].origin = "ingest" => Len(calls[b][k].events) = batchSize
    /\ Len(calls[b][k].events) < batchSize => calls[b][k].origin = "flush"
    /\ Len(calls[b][k].events) \in 1..batchSize

C4_NoEventLost ==
  \A b \in BotIds : stops[b] = <<>> =>
    /\ \A e \in 1..Len(conversationHistory[b]) :
         Cardinality({k \in CallIds(b) : e \in Range(calls[b][k].events)})
           + (IF e \in Range(transcriptBuffer[b]) THEN 1 ELSE 0) = 1
    /\ \A k \in CallIds(b) : \A i, j \in DOMAIN calls[b][k].events :
         i < j => calls[b][k].events[i] < calls[b][k].events[j]
    /\ \A i, j \in DOMAIN transcriptBuffer[b] :
         i < j => transcriptBuffer[b][i] < transcriptBuffer[b][j]

\* C5: a stop that finds buffered events issues exactly one reasoning call for
\* them and issues its end-of-session calls only after that call, with the
\* dispatch of its directive, has finished; a stop that finds the buffer empty
\* issues no reasoning call.
InProgress(s) == s.pc \in {"flushing", "ending", "deleting"}

C5_FlushBeforeEnd ==
  \A b \in BotIds : \A t \in StopIds(b) :
    LET s == stops[b][t]
        mine == {k \in CallIds(b) : calls[b][k].origin = "flush" /\ calls[b][k].stop = t}
    IN InProgress(s) =>
         /\ Cardinality(mine) = IF s.residue > 0 THEN 1 ELSE 0
         /\ mine = IF s.flushCall = 0 THEN {} ELSE {s.flushCall}
         /\ \A k \in mine :
              /\ Len(calls[b][k].events) = s.residue
              /\ s.pc = "flushing" <=> ~Finished(calls[b][k])
              /\ s.pc = "flushing" => \A c \in EndChannels : s.ends[c] = "none"

C5_Witness ==
  \E b \in BotIds : \E t \in StopIds(b) :
    /\ stops[b][t].pc = "ending"
    /\ stops[b][t].residue > 0
    /\ stops[b][t].flushCall \in CallIds(b)
    /\ Finished(calls[b][stops[b][t].flushCall])

\* C6: no end-of-session call is issued while a reasoning call or a dispatch of
\* the session is still in flight.
EndIssued(b, t) ==
  /\ t \in DOMAIN stops'[b]
  /\ stops'[b][t].pc = "ending"
  /\ t \in DOMAIN stops[b] => stops[b][t].pc # "ending"

C6_StopWaitsForCalls ==
  [][\A b \in BotIds : \A t \in 1..MaxStops :
       EndIssued(b, t) => \A k \in DOMAIN calls'[b] : Finished(calls'[b][k])]_vars

\* C7: while a stop of a registered session is in progress, and ever after, no
\* webhook event is ingested: history and buffer do not grow.
C7_NoIngestAfterStop ==
  [][\A b \in BotIds :
       (\E t \in StopIds(b) : stops[b][t].pc \in {"flushing", "ending"}) =>
         Len(conversationHistory'[b]) = Len(conversationHistory[b])]_vars

\* C8: a directive is sent to every enabled channel whatever the other sends do;
\* a failed send leaves the other sends of the dispatch untouched, and no send
\* failure puts analyzeBatch into its error path.
C8_FailStep(b) ==
  \A k \in CallIds(b) : \A c \in Channels :
    (calls[b][k].sends[c] = "pending" /\ calls'[b][k].sends[c] # "pending") =>
       /\ calls'[b][k].st \in {"sending", "done"}
       /\ \A d \in Channels \ {c} :
            calls[b][k].sends[d] = "pending" => calls'[b][k].sends[d] = "pending"

C8_Dispatched ==
  \A b \in BotIds : \A k \in CallIds(b) :
    /\ calls[b][k].st = "sending" =>
         \A c \in EnabledChannels(b) : calls[b][k].sends[c] # "none"
    /\ calls[b][k].st = "error" => \A c \in Channels : calls[b][k].sends[c] = "none"

C8_ChannelFailureIsolated ==
  /\ [][\A b \in BotIds : C8_FailStep(b)]_vars
  /\ []C8_Dispatched

C8_Witness ==
  \E b \in BotIds : \E k \in CallIds(b) : \E c1, c2 \in Channels :
    /\ calls[b][k].st = "sending"
    /\ calls[b][k].sends[c1] = "fail"
    /\ calls[b][k].sends[c2] = "pending"

\* C9: the sends of a directive are all started in the step in which the
\* reasoning call returns, and analyzeBatch (and the flush awaiting it) goes on
\* only when none of them is pending any more.
C9_StartStep(b) ==
  \A k \in CallIds(b) : \A c \in Channels :
    (calls[b][k].sends[c] # "pending" /\ calls'[b][k].sends[c] = "pending") =>
       /\ calls[b][k].st = "calling"
       /\ \A d \in EnabledChannels(b) : calls'[b][k].sends[d] \in {"pending", "noop"}

C9_Joined ==
  \A b \in BotIds :
    /\ \A k \in CallIds(b) :
         Finished(calls[b][k]) => \A c \in Channels : calls[b][k].sends[c] # "pending"
    /\ \A t \in StopIds(b) :
         (stops[b][t].pc \in {"ending", "deleting"} /\ stops[b][t].flushCall # 0) =>
            \A c \in Channels : calls[b][stops[b][t].flushCall].sends[c] # "pending"

C9_ParallelThenJoin ==
  /\ [][\A b \in BotIds : C9_StartStep(b)]_vars
  /\ []C9_Joined

C9_Witness ==
  \E b \in BotIds : \E k \in CallIds(b) : \E c1, c2 \in Channels :
    /\ calls[b][k].st = "sending"
    /\ calls[b][k].sends[c1] = "pending"
    /\ calls[b][k].sends[c2] = "pending"
    /\ c1 # c2

\* C10: a batch whose reasoning call failed causes no send on any channel, and
\* no event of a submitted batch is ever buffered or submitted again.
C10_FailedBatchDropped ==
  \A b \in BotIds :
    /\ \A k \in CallIds(b) :
         calls[b][k].st = "error" =>
           /\ \A c \in Channels : calls[b][k].sends[c] = "none"
           /\ calls[b][k].to = Null
    /\ \A k \in CallIds(b) :
         Range(calls[b][k].events) \cap Range(transcriptBuffer[b]) = {}
    /\ \A k1, k2 \in CallIds(b) :
         k1 # k2 => Range(calls[b][k1].events) \cap Range(calls[b][k2].events) = {}

C10_Witness ==
  \E b \in BotIds : \E k \in CallIds(b) :
    /\ calls[b][k].st = "error"
    /\ Len(calls[b][k].events) = batchSize
    /\ Len(transcriptBuffer[b]) > 0

\* C11: while the host is unresolved (interviewerId unset), the events ingested
\* are all in the conversation history and, in order, in the full batches
\* submitted and the buffer; no call of the session has a send on any channel
\* and no nudge was counted, whatever the reasoning engine returned.
C11_NoSendWithoutHost ==
  \A b \in BotIds : interviewerId[b] = Null =>
    /\ \A k \in CallIds(b) :
         /\ calls[b][k].st # "sending"
         /\ calls[b][k].to = Null
         /\ \A c \in Channels : calls[b][k].sends[c] = "none"
    /\ slackNudgeCount[b] = 0 /\ smsNudgeCount[b] = 0
    /\ (stops[b] = <<>> /\ \A k \in CallIds(b) : calls[b][k].st # "error") =>
         /\ Len(conversationHistory[b]) =
              batchSize * Len(calls[b]) + Len(transcriptBuffer[b])
         /\ Len(transcriptBuffer[b]) < batchSize
         /\ \A k \in CallIds(b) :
              calls[b][k].events = [i \in 1..batchSize |-> batchSize * (k - 1) + i]
         /\ transcriptBuffer[b] =
              [i \in 1..Len(transcriptBuffer[b]) |-> batchSize * Len(calls[b]) + i]

C11_Witness ==
  \E b \in BotIds : \E k \in CallIds(b) :
    /\ interviewerId[b] = Null
    /\ calls[b][k].st = "skipped"
    /\ Len(calls[b][k].events) = batchSize
    /\ Len(transcriptBuffer[b]) > 0

\* C12: while no stop was requested, a directive that is being dispatched has
\* exactly one send (in flight, delivered or failed) on every enabled channel.
C12_OneSendPerChannel ==
  \A b \in BotIds : stops[b] = <<>> =>
    \A k \in CallIds(b) : calls[b][k].st = "sending" =>
      \A c \in EnabledChannels(b) : calls[b][k].sends[c] \in {"pending", "ok", "fail"}

\* C13: a directive dispatched while the Slack manager has no thread makes the
\* dispatching step start a thread, and the reply is sent, not dropped.
C13_ThreadCreatedOnDemand ==
  [][\A b \in BotIds : \A k \in CallIds(b) :
       (/\ calls[b][k].st = "calling" /\ calls'[b][k].st = "sending"
        /\ HasSlack(b) /\ threadTs[b] = Null) =>
          /\ starts'[b]["SLACK"].invoked = starts[b]["SLACK"].invoked + 1
          /\ calls'[b][k].sends["SLACK"] = "pending"]_vars

\* C14: per session and platform the session-start call is made at most once.
C14_OneStartPerChannel ==
  \A b \in BotIds : \A c \in EndChannels : starts[b][c].invoked <= 1

\* C15: while no stop was requested, the nudge counts the enabled platforms
\* would report in their end-of-session summaries are the same, and the totals
\* a stop does report are the same on every platform.
C15_NudgeCountsAgree ==
  \A b \in BotIds : (HasSlack(b) /\ HasSms(b)) =>
    /\ stops[b] = <<>> => slackNudgeCount[b] = smsNudgeCount[b]
    /\ \A t \in StopIds(b) :
         (\A c \in EndChannels : stops[b][t].ends[c] = "pending") =>
            stops[b][t].totalNudges["SLACK"] = stops[b][t].totalNudges["SMS"]

\* C16: when the stop-bot route answers a request that found the session (it
\* flushed the session's buffer), the session is no longer registered,
\* whatever the DELETE fetch returned.
C16_StopEvicts ==
  [][\A b \in BotIds : \A t \in StopIds(b) :
       (/\ stops[b][t].pc = "deleting" /\ stops[b][t].flushCall # 0
        /\ stops'[b][t].pc \in {"done", "failed"}) => b \notin sessions']_vars

\* C17: no step takes anything away from a session that stays registered: its
\* history does not shrink and its resolved host stays (a create request for a
\* registered id is turned down).
C17_NoOverwrite ==
  [][\A b \in BotIds : (b \in sessions /\ b \in sessions') =>
       /\ Len(conversationHistory'[b]) >= Len(conversationHistory[b])
       /\ interviewerId[b] # Null => interviewerId'[b] = interviewerId[b]
       /\ threadTs[b] # Null /\ stops[b] = <<>> => threadTs'[b] = threadTs[b]]_vars

\* C18: a stop request for an id the registry does not hold is answered with
\* session-not-found at once: it does not go on to the remote deletion.
C18_UnknownStopRejected ==
  [][\A b \in BotIds :
       (Len(stops'[b]) = Len(stops[b]) + 1 /\ b \notin sessions) =>
          stops'[b][Len(stops'[b])].pc \notin {"flushing", "ending", "deleting"}]_vars

\* C19: when a stop of a registered session comes to its end-of-session calls,
\* it makes one on exactly the platforms whose session-start call was made.
C19_EndWhereStarted ==
  [][\A b \in BotIds : \A t \in DOMAIN stops'[b] :
       (/\ b \in sessions
        /\ stops'[b][t].pc \in {"ending", "deleting"}
        /\ t \in DOMAIN stops[b] => stops[b][t].pc = "flushing") =>
          \A c \in EndChannels :
            stops'[b][t].ends[c] = "pending" <=> starts[b][c].invoked > 0]_vars

\* C20: the first accepted host transcript or host join sets interviewerId to
\* its participant id, and a set interviewerId is never changed by any step.
HostEvents ==
  {in \in WebhookInputs \cup CoHostInputs :
     /\ in.secretOk /\ in.isHost /\ in.pid # Null
     /\ \/ in.event = "participant_events.join"
        \/ in.event = "transcript.data" /\ in.words # ""}

C20_HostFixedOnceResolved ==
  [][\A b \in BotIds :
       /\ interviewerId[b] # Null => interviewerId'[b] = interviewerId[b]
       /\ \A in \in HostEvents :
            (b \in sessions /\ interviewerId[b] = Null /\ Webhook(b, in)) =>
               interviewerId'[b] = in.pid]_vars

C20_Witness ==
  \E b \in BotIds :
    /\ interviewerId[b] = CoHost
    /\ Len(conversationHistory[b]) >= batchSize
    /\ \E k \in CallIds(b) : calls[b][k].st = "sending"

\* C21: the step that resolves the host makes a session-start call on every
\* enabled channel (Slack thread, in-meeting chat and SMS broadcast alike),
\* one call per channel.
C21_StartOnEveryChannel ==
  [][\A b \in BotIds :
       (interviewerId[b] = Null /\ interviewerId'[b] # Null) =>
          /\ EnabledChannels(b) \subseteq StartTargets(b)
          /\ \A c \in StartTargets(b) :
               starts'[b][c].invoked = starts[b][c].invoked + 1]_vars

\* C22: the session-start calls are made together in the step that resolves
\* the host, whatever becomes of each: a start that failed or has not returned
\* leaves the other start made, the host resolved, and the events ingested
\* since buffered and batched as without it.
C22_StartsIndependent ==
  \A b \in BotIds :
    /\ (HasSlack(b) /\ HasSms(b)) =>
         starts[b]["SLACK"].invoked = starts[b]["SMS"].invoked
    /\ (\E c \in EndChannels : starts[b][c].invoked > 0) => interviewerId[b] # Null
    /\ Len(transcriptBuffer[b]) < batchSize
    /\ (stops[b] = <<>> /\ \A k \in CallIds(b) : calls[b][k].st # "error") =>
         Len(conversationHistory[b]) = batchSize * Len(calls[b]) + Len(transcriptBuffer[b])

C22_Witness ==
  \E b \in BotIds :
    /\ stops[b] = <<>>
    /\ starts[b]["SLACK"].invoked = 1 /\ starts[b]["SLACK"].pending = 0
    /\ threadTs[b] = Null
    /\ starts[b]["SMS"].pending = 1
    /\ \E k \in CallIds(b) :
         calls[b][k].origin = "ingest" /\ calls[b][k].sends["SMS"] = "pending"
    /\ Len(transcriptBuffer[b]) > 0

\* C23: when the requests of an SMS broadcast for a directive have returned,
\* some with success and some with failure, the broadcast is not reported as
\* failed.
C23_PartialSuccessReported ==
  [][\A b \in BotIds : \A k \in CallIds(b) : \A res \in Results(b, "SMS") :
       (/\ SendReturn(b, k, "SMS", res)
        /\ \E i, j \in DOMAIN res : res[i] = "ok" /\ res[j] = "fail"
        /\ calls'[b][k].st = "sending") =>
          calls'[b][k].sends["SMS"] # "fail"]_vars

\* C24: an end-of-session call that fails (it settles and the thread handle,
\* or the active flag, of its manager stays set) leaves the other end-of-session calls
\* of the stop as they are and the session registered for the deletion to come;
\* a stop that made end-of-session calls is waiting for them or has gone on to
\* the DELETE fetch, and goes on as soon as none is pending.
C24_FailStep(b) ==
  \A t \in StopIds(b) : \A c \in EndChannels :
    (/\ stops[b][t].ends[c] = "pending" /\ stops'[b][t].ends[c] = "settled"
     /\ IF c = "SLACK" THEN threadTs'[b] # Null ELSE sessionActive'[b]) =>
       /\ \A d \in EndChannels \ {c} : stops'[b][t].ends[d] = stops[b][t].ends[d]
       /\ stops'[b][t].pc \in {"ending", "deleting"}
       /\ sessions' = sessions

C24_StopGoesOn ==
  \A b \in BotIds : \A t \in StopIds(b) :
    /\ (\E c \in EndChannels : stops[b][t].ends[c] # "none") =>
          stops[b][t].pc \in {"ending", "deleting"}
    /\ stops[b][t].pc = "ending" <=>
          \E c \in EndChannels : stops[b][t].ends[c] = "pending"

C24_EndFailureContained ==
  /\ [][\A b \in BotIds : C24_FailStep(b)]_vars
  /\ []C24_StopGoesOn

C24_Witness ==
  \E b \in BotIds : \E t \in StopIds(b) :
    /\ stops[b][t].pc = "deleting"
    /\ stops[b][t].ends["SLACK"] = "settled" /\ threadTs[b] # Null
    /\ stops[b][t].ends["SMS"] = "settled" /\ ~sessionActive[b]
    /\ stops[b][t].flushCall # 0

\* C25: a step changes the state of at most one session, and a webhook request
\* ingested for one session changes nothing of the other; each session's buffer stays
\* below batchSize whatever calls of the other session are outstanding.
SessionState(b) ==
  <<phoneNumbers[b], conversationHistory[b], transcriptBuffer[b], batchCount[b],
    interviewerId[b], threadTs[b], slackNudgeCount[b], sessionActive[b],
    smsNudgeCount[b], starts[b], calls[b], stops[b], transcripts[b]>>

C25_Step(a, b) ==
  /\ SessionState(a)' # SessionState(a) => SessionState(b)' = SessionState(b)
  /\ conversationHistory' # conversationHistory =>
       \A in \in HostTranscripts :
         Webhook(a, in) => SessionState(b)' = SessionState(b)

C25_SessionsIndependent ==
  /\ [][\A a \in BotIds : \A b \in BotIds \ {a} : C25_Step(a, b)]_vars
  /\ [](\A b \in BotIds : Len(transcriptBuffer[b]) < batchSize)

C25_Witness ==
  \E a \in BotIds : \E b \in BotIds \ {a} :
    /\ \E k \in CallIds(a) : calls[a][k].st = "calling" /\ calls[a][k].origin = "ingest"
    /\ \E k \in CallIds(b) : Finished(calls[b][k])
    /\ threadTs[a] # Null /\ threadTs[b] = Null
    /\ interviewerId[a] # Null /\ interviewerId[b] # Null

\* C26: the step in which a reasoning call fails touches nothing but that call
\* and the buffer, which it leaves empty: the session stays registered, no stop
\* fails by it, and (the buffer always holding fewer than batchSize events) the
\* next batchSize events ingested start a new reasoning call.
C26_FailStep(b) ==
  \A k \in CallIds(b) :
    (calls[b][k].st = "calling" /\ calls'[b][k].st = "error") =>
       /\ transcriptBuffer'[b] = <<>>
       /\ conversationHistory'[b] = conversationHistory[b]
       /\ sessions' = sessions
       /\ \A j \in CallIds(b) \ {k} : calls'[b][j] = calls[b][j]
       /\ \A t \in StopIds(b) : stops'[b][t].pc = "failed" => stops[b][t].pc = "failed"

Min(x, y) == IF x < y THEN x ELSE y

C27_Ordered ==
  \A b \in BotIds :
    LET h == conversationHistory[b]
        buf == transcriptBuffer[b]
    IN /\ h = [i \in 1..Len(h) |-> i]
       /\ Len(buf) <= Len(h)
       /\ buf = [i \in 1..Len(buf) |-> h[Len(h) - Len(buf) + i]]

C27_Step ==
  /\ \A b \in BotIds :
       \/ conversationHistory'[b] = conversationHistory[b]
       \/ conversationHistory'[b] =
            Append(conversationHistory[b], Len(conversationHistory[b]) + 1)
  /\ \A b \in OneBot :
       (AiHistory(b) /\ b \in sessions) =>
          LET h == conversationHistory[b]
              m == Min(10, Len(h))
          IN /\ aiHistoryResponse'.status = 200
             /\ aiHistoryResponse'.history = [i \in 1..m |-> h[Len(h) - m + i]]

C27_HistoryInOrder == [][C27_Step]_vars /\ []C27_Ordered

C27_Witness ==
  /\ aiHistoryResponse.status = 200
  /\ Len(aiHistoryResponse.history) = 10
  /\ aiHistoryResponse.history[1] > 1
  /\ aiHistoryResponse.history[10] = Len(conversationHistory["b1"])

\* C28: an authorized transcript request that is partial, has no text or carries
\* no participant id leaves the agent of its session as it is: buffer,
\* conversation history, host, batch counter and reasoning calls.
NotBatched ==
  {in \in WebhookInputs \cup IdlessTranscripts :
     /\ in.secretOk
     /\ in.event \in {"transcript.data", "transcript.partial_data"}
     /\ in.event = "transcript.partial_data" \/ in.words = "" \/ in.pid = Null}

C28_OnlyFinalWithIdBatched ==
  [][\A b \in BotIds : \A in \in NotBatched :
       Webhook(b, in) =>
          /\ transcriptBuffer'[b] = transcriptBuffer[b]
          /\ conversationHistory'[b] = conversationHistory[b]
          /\ interviewerId'[b] = interviewerId[b]
          /\ batchCount'[b] = batchCount[b]
          /\ calls'[b] = calls[b]]_vars

C28_Witness ==
  \E b \in BotIds :
    /\ b \in sessions
    /\ transcripts[b] > Len(conversationHistory[b])
    /\ Len(transcriptBuffer[b]) > 0
    /\ interviewerId[b] = Null

\* C29: a webhook request with a wrong secret is answered 401 and changes
\* nothing else: no session's transcripts, agent, platform managers, calls or
\* stops, and not the registry.
C29_UnauthorizedRejected ==
  [][\A b \in BotIds : \A in \in UnauthorizedInputs :
       Webhook(b, in) =>
          /\ webhookStatus' = 401
          /\ UNCHANGED <<sessions, issuedIds, agentVars, chanVars, calls, stops,
                         transcripts>>]_vars

C29_Witness ==
  \E b \in BotIds :
    /\ webhookStatus = 401
    /\ b \in sessions
    /\ Len(conversationHistory[b]) > 0
    /\ transcripts[b] = Len(conversationHistory[b])
    /\ interviewerId[b] = Null

\* C30: when a reasoning call returns while the Slack manager has no thread,
\* the step posts nothing to Slack, whatever the call decided, and leaves the
\* manager's nudge counter and thread handle as they are.
C30_Step(b) ==
  \A k \in CallIds(b) :
    (/\ calls[b][k].st = "calling" /\ calls'[b][k].st # "calling"
     /\ HasSlack(b) /\ threadTs[b] = Null) =>
       /\ calls'[b][k].sends["SLACK"] \in {"none", "noop"}
       /\ slackNudgeCount'[b] = slackNudgeCount[b]
       /\ threadTs'[b] = Null

C30_NoThreadNoReply == [][\A b \in BotIds : C30_Step(b)]_vars

C30_Witness ==
  \E b \in BotIds : \E k \in CallIds(b) :
    /\ calls[b][k].st = "sending"
    /\ calls[b][k].sends["SLACK"] = "noop"
    /\ calls[b][k].sends["SMS"] = "pending"
    /\ threadTs[b] = Null
    /\ slackNudgeCount[b] = 0 /\ smsNudgeCount[b] = 1

\* C31: in the Teams webhook, a message of a user who has no conversation
\* reference stored is answered with the welcome message, a message of a user
\* who has one is not, and either way the user's reference is stored.
C31_FirstMessageWelcomed ==
  [][\A u \in TeamsUsers, text \in BOOLEAN :
       HandleTeamsWebhook(u, "message", text) =>
         /\ "welcome" \in Range(teamsReplies'.sent)
               <=> u \notin teamsManager.conversationReferences
         /\ u \in teamsManager'.conversationReferences]_vars

\* C32: a session start through the Teams integration, made while another
\* session that has the Teams manager is active, leaves the host, the nudge
\* counter and the session start time of the manager as they were.
C32_SecondStartKeepsFirst ==
  [][\A s \in TeamsSessionIds, host \in TeamsUsers \cup {Null}, res \in Outcomes :
       (/\ OnSessionStart(s, host, res)
        /\ teamsSessions \ {s} # {}
        /\ teamsManager.sessionStartTime # NoTime)
         => /\ teamsManager'.hostUserId = teamsManager.hostUserId
            /\ teamsManager'.nudgeCount = teamsManager.nudgeCount
            /\ teamsManager'.sessionStartTime = teamsManager.sessionStartTime]_vars

\* C33: between the tasks of the event loop the transcript buffer of a session
\* holds at most batchSize - 1 events, and every reasoning call issued from
\* ingestion carries exactly batchSize events, also while reasoning calls fail
\* or overlap.
C33_BufferBelowBatchSize ==
  \A b \in BotIds :
    /\ Len(transcriptBuffer[b]) \in 0..(batchSize - 1)
    /\ \A k \in CallIds(b) :
         calls[b][k].origin = "ingest" => Len(calls[b][k].events) = batchSize

C33_Witness ==
  \E b \in BotIds : \E k1, k2 \in CallIds(b) :
    /\ k1 # k2
    /\ calls[b][k1].st = "calling" /\ calls[b][k2].st = "calling"
    /\ calls[b][k1].origin = "ingest"
    /\ Len(calls[b][k1].events) = batchSize

\* C34: batchCount goes up by one with every reasoning call issued, so the
\* k-th call of a session has ordinal k, and the batchNumber of a coaching
\* message being sent on the Slack thread or by SMS is the ordinal of the call
\* whose analysis returned the directive.
C34_BatchNumberIsOrdinal ==
  \A b \in BotIds :
    /\ batchCount[b] = Len(calls[b])
    /\ \A k \in CallIds(b) :
         /\ calls[b][k].ord = k
         /\ (\E c \in EndChannels : calls[b][k].sends[c] = "pending") =>
               calls[b][k].batchNumber = calls[b][k].ord

\* C35: the messagesAnalyzed of a coaching message being sent on the Slack
\* thread or by SMS is the number of events of the batch that was analysed,
\* also for the partial batch flushed at a stop.
C35_MessagesAnalyzedIsBatchLength ==
  \A b \in BotIds : \A k \in CallIds(b) :
    (\E c \in EndChannels : calls[b][k].sends[c] = "pending") =>
      calls[b][k].messagesAnalyzed = Len(calls[b][k].events)

\* C36: every in-meeting chat request being sent for a directive has a
\* recipient, and the recipient is the participant id of the host; no coaching
\* message goes out without recipient, as a message to everyone.
C36_ChatAlwaysPrivate ==
  \A b \in BotIds : \A k \in CallIds(b) :
    calls[b][k].sends["ZOOM_DM"] = "pending" =>
      /\ calls[b][k].to \notin {Null, Public}
      /\ calls[b][k].to \in Hosts

C36_Witness ==
  \E b \in BotIds : \E k \in CallIds(b) :
    /\ INTEGRATION_MODES = {"ZOOM_DM"}
    /\ calls[b][k].sends["ZOOM_DM"] = "pending"
    /\ calls[b][k].to \in Hosts
    /\ calls[b][k].origin = "flush"

\* the end-of-session calls for platform c of session b that are outstanding,
\* from stop requests and from clear-sessions requests
EndsPending(b, c) ==
  Cardinality({t \in StopIds(b) : stops[b][t].ends[c] = "pending"})
    + Cardinality({n \in DOMAIN clears : clears[n].flush[b].ends[c] = "pending"})

\* C37: for every session and platform at most one end-of-session summary is
\* issued, so never two of them are outstanding at once, however stop requests
\* and clear-sessions requests for the session interleave.
C37_OneEndPerChannel ==
  \A b \in BotIds : \A c \in EndChannels : EndsPending(b, c) <= 1

\* C39: when a clear-sessions request completes and empties the registry,
\* every session it removes had its flushBuffer called by that request and
\* returned (buffer flushed, end-of-session calls issued and settled); this
\* includes the sessions created while the request was waiting.
C39_ClearedAfterFlush ==
  [][\A n \in DOMAIN clears :
       (clears[n].pc = "waiting" /\ clears'[n].pc = "done") =>
         \A b \in sessions : clears[n].flush[b].pc = "flushed"]_vars

\* the handle of the manager of platform c is cleared
HandleCleared(b, c) == IF c = "SLACK" THEN threadTs[b] = Null ELSE ~sessionActive[b]

\* an end-of-session call on platform c has completed successfully
Closed(b, c) ==
  /\ HandleCleared(b, c)
  /\ \E t \in StopIds(b) : stops[b][t].ends[c] = "settled"

C38_Step(b, c) ==
  HandleCleared(b, c) =>
    /\ HandleCleared(b, c)'
    /\ \A k \in DOMAIN calls'[b] :
         calls'[b][k].sends[c] = "pending" =>
           k \in CallIds(b) /\ calls[b][k].sends[c] = "pending"

====
